---- MODULE Spec2Model ----
(***************************************************************************)
(* A model of multimodal_molecules: the condition evaluator and dataset    *)
(* assembler (data.py), and the combination enumerator, the cached         *)
(* train/test split, the experiment runner and the validator (models.py).  *)
(*                                                                         *)
(* Python strings are sequences of atoms: "C-XANES" is <<"C","-","XANES">>,*)
(* so that split, join, replace, "in" and sorted act on them as the code's *)
(* string operations do.  A 2-D numpy array is a record [rows, cols]: the  *)
(* sample identities of its rows and the <<key, j>> spectral columns its   *)
(* columns were taken from.  Fractions are pairs <<numerator, denominator>>*)
(***************************************************************************)
EXTENDS Integers, Sequences, FiniteSets, TLC

VARIABLES self, run, rng, written, vres, runs, call, ret

vars == <<self, run, rng, written, vres, runs, call, ret>>

-----------------------------------------------------------------------------
(* Bounds of the model *)

MaxN == 4
MaxComboN == 4
MaxRows == 2
MaxTokens == 2
MaxRuns == 2
MaxDebug == 1
SpecLen == 2

-----------------------------------------------------------------------------
(* Python str and list operations on atom sequences *)

Range(s) == {s[i] : i \in DOMAIN s}

AtomRank(a) ==
  CASE a = "!" -> 33
    [] a = "," -> 44
    [] a = "-" -> 45
    [] a = "C" -> 67
    [] a = "N" -> 78
    [] a = "XANES" -> 88
    [] a = "_" -> 95
    [] OTHER -> 127

RECURSIVE StrLess(_, _)
StrLess(s, t) ==
  IF t = <<>> THEN FALSE
  ELSE IF s = <<>> THEN TRUE
  ELSE IF Head(s) = Head(t) THEN StrLess(Tail(s), Tail(t))
  ELSE AtomRank(Head(s)) < AtomRank(Head(t))

RECURSIVE InsertSorted(_, _)
InsertSorted(x, lst) ==
  IF lst = <<>> THEN <<x>>
  ELSE IF StrLess(x, Head(lst)) THEN <<x>> \o lst
  ELSE <<Head(lst)>> \o InsertSorted(x, Tail(lst))

RECURSIVE SortedStr(_)
SortedStr(lst) ==
  IF lst = <<>> THEN <<>>
  ELSE InsertSorted(lst[Len(lst)], SortedStr(SubSeq(lst, 1, Len(lst) - 1)))

RECURSIVE SplitAcc(_, _, _)
SplitAcc(s, sep, cur) ==
  IF s = <<>> THEN <<cur>>
  ELSE IF Len(s) >= Len(sep) /\ SubSeq(s, 1, Len(sep)) = sep
       THEN <<cur>> \o SplitAcc(SubSeq(s, Len(sep) + 1, Len(s)), sep, <<>>)
       ELSE SplitAcc(Tail(s), sep, Append(cur, Head(s)))

Split(s, sep) == SplitAcc(s, sep, <<>>)

RECURSIVE Join(_, _)
Join(lst, sep) ==
  IF lst = <<>> THEN <<>>
  ELSE IF Len(lst) = 1 THEN lst[1]
  ELSE lst[1] \o sep \o Join(Tail(lst), sep)

Replace(s, old, new) == Join(Split(s, old), new)

Contains(s, sub) ==
  \E i \in 1..(Len(s) - Len(sub) + 1) : SubSeq(s, i, i + Len(sub) - 1) = sub

RECURSIVE Concat(_)
Concat(lists) ==
  IF lists = <<>> THEN <<>> ELSE Head(lists) \o Concat(Tail(lists))

RECURSIVE SumSeq(_)
SumSeq(s) == IF s = <<>> THEN 0 ELSE Head(s) + SumSeq(Tail(s))

XANES == <<"XANES">>
COMMA == <<",">>
DASH == <<"-">>
USCORE == <<"_">>

-----------------------------------------------------------------------------
(* models.py: get_all_combinations *)

RECURSIVE combinations(_, _)
combinations(L, k) ==
  IF k = 0 THEN << <<>> >>
  ELSE IF Len(L) < k THEN <<>>
  ELSE LET withHead == combinations(Tail(L), k - 1)
       IN  [i \in 1..Len(withHead) |-> <<Head(L)>> \o withHead[i]]
           \o combinations(Tail(L), k)

RECURSIVE CombosUpTo(_, _)
CombosUpTo(L, nn) ==
  IF nn = 0 THEN <<>>
  ELSE CombosUpTo(L, nn - 1) \o combinations(L, nn)

CombosOffByOne(n) ==
  LET L == [ii \in 1..n |-> ii - 1]
  IN  IF n = 0 THEN <<>> ELSE combinations(L, 0) \o CombosUpTo(L, n - 1)

get_all_combinations(n) == CombosUpTo([ii \in 1..n |-> ii - 1], n)

-----------------------------------------------------------------------------
(* models.py: Results.train_test_indexes *)

RECURSIVE InsertInt(_, _)
InsertInt(x, lst) ==
  IF lst = <<>> THEN <<x>>
  ELSE IF x < Head(lst) THEN <<x>> \o lst
  ELSE <<Head(lst)>> \o InsertInt(x, Tail(lst))

RECURSIVE sorted(_)
sorted(lst) ==
  IF lst = <<>> THEN <<>>
  ELSE InsertInt(lst[Len(lst)], sorted(SubSeq(lst, 1, Len(lst) - 1)))

(* list(set): the elements of a set in an order the program does not choose *)
RECURSIVE ListOfSet(_)
ListOfSet(S) ==
  IF S = {} THEN <<>>
  ELSE LET x == CHOOSE y \in S : \A z \in S : y >= z
       IN  <<x>> \o ListOfSet(S \ {x})

(* int(self._test_size * N), the fraction being f[1] / f[2] *)
TestSize(f, N) == (f[1] * N) \div f[2]

(* np.random.choice(N, size=size, replace=False): the possible results *)
Draws(N, size) ==
  {d \in [1..size -> 0..(N - 1)] : \A i, j \in 1..size : i # j => d[i] # d[j]}

SplitUnsorted(N, draw) ==
  <<ListOfSet((0..(N - 1)) \ Range(draw)), draw>>

(* lines 153-159 given the seeded generator's draw *)
TrainTestIndexes(N, draw) ==
  LET test_indexes == draw
      train_indexes == ListOfSet((0..(N - 1)) \ Range(test_indexes))
  IN  <<sorted(train_indexes), sorted(test_indexes)>>

-----------------------------------------------------------------------------
(* data.py: get_dataset *)

(* columns of the index table: presence flags, then functional groups *)
FlagColumns == {<<"C">>, <<"N">>, <<"C", "-", "XANES">>, <<"N", "-", "XANES">>}
FGColumns == << <<"Alcohol">>, <<"Ether">>, <<"Amine">> >>
Columns == FlagColumns \cup Range(FGColumns)

(* keys of xanes["grids"], and of every xanes["data"][smile] *)
GridKeys == {<<"C">>, <<"N">>}
SpectrumKeys == {<<"C", "-", "XANES">>, <<"N", "-", "XANES">>}

Raise(e) == [ok |-> FALSE, err |-> e]

RECURSIVE ApplyConditions(_, _)
ApplyConditions(index, conditions) ==
  IF conditions = <<>> THEN [ok |-> TRUE, index |-> index]
  ELSE LET condition == Head(conditions)
       IN  IF condition = <<>> THEN Raise("IndexError")
           ELSE IF "!" # condition[1]
           THEN IF condition \notin Columns THEN Raise("KeyError")
                ELSE ApplyConditions(
                       SelectSeq(index, LAMBDA r : r.col[condition] = 1),
                       Tail(conditions))
           ELSE IF Tail(condition) \notin Columns THEN Raise("KeyError")
                ELSE ApplyConditions(
                       SelectSeq(index, LAMBDA r : r.col[Tail(condition)] = 0),
                       Tail(conditions))

(* lines 72-76 without the complementary conditions of lines 61-62 *)
ConditionsNoComplement(conditions) == Split(conditions, COMMA)

(* lines 57-62 *)
ExpandConditions(conditions) ==
  LET conds == Split(conditions, COMMA)
      xanesOnes == SelectSeq(conds, LAMBDA xx : Contains(xx, XANES))
      cc_conditions == [i \in 1..Len(xanesOnes) |-> Split(xanesOnes[i], DASH)[1]]
  IN  conds \o cc_conditions

(* np.array([xanes["data"][smile][key] for smile in smiles]) *)
SpectraOf(smiles, key) ==
  [rows |-> smiles, cols |-> [j \in 1..SpecLen |-> <<key, j - 1>>]]

get_dataset(index0, conditions) ==
  LET conds == ExpandConditions(conditions)
      filtered == ApplyConditions(index0, conds)
  IN  IF ~filtered.ok THEN filtered
      ELSE
      LET index == filtered.index
          smiles == [i \in 1..Len(index) |-> index[i].SMILES]
          xanes_conditions == SelectSeq(conds, LAMBDA cc : Contains(cc, XANES))
          keys == Range(xanes_conditions)
          fgs == SelectSeq(FGColumns,
                   LAMBDA fg : SumSeq([i \in 1..Len(index) |-> index[i].col[fg]]) > 0)
      IN  IF \E key \in keys : \/ (smiles # <<>> /\ key \notin SpectrumKeys)
                                \/ Split(key, DASH)[1] \notin GridKeys
          THEN Raise("KeyError")
          ELSE [ok |-> TRUE,
                keys |-> keys,
                xanes |-> [key \in keys |-> SpectraOf(smiles, key)],
                FG |-> [i \in 1..Len(fgs) |->
                          [name |-> fgs[i],
                           y |-> [k \in 1..Len(index) |-> index[k].col[fgs[i]]]]],
                index |-> index]

-----------------------------------------------------------------------------
(* The three pure functions applied to enumerated inputs *)

Seeds == {0, 42}
Fractions == {<<0, 1>>, <<1, 10>>, <<1, 2>>, <<3, 5>>, <<1, 1>>}

TokenPool ==
  {<<"C", "-", "XANES">>, <<"N", "-", "XANES">>, <<"C">>, <<"N">>,
   <<"!", "C">>, <<"!", "N">>, <<"!", "C", "-", "XANES">>}

TokenLists ==
  UNION {{t \in [1..k -> TokenPool] : \A i, j \in 1..k : i # j => t[i] # t[j]}
         : k \in 1..MaxTokens}

SmilesOf(i) == <<"s", i>>

(* rows of an index table: the 0/1 assignments of the presence flags,   *)
(* but for a nitrogen spectrum without nitrogen                          *)
RowCols ==
  {[c \in Columns |->
      IF c \in FlagColumns THEN fl[c]
      ELSE IF c = <<"Alcohol">> THEN fl[<<"C">>]
      ELSE IF c = <<"Ether">> THEN 1 - fl[<<"N">>]
      ELSE 0] : fl \in {g \in [FlagColumns -> {0, 1}] :
                          g[<<"N", "-", "XANES">>] <= g[<<"N">>]}}

Tables ==
  UNION {{[i \in 1..k |-> [SMILES |-> SmilesOf(i), col |-> t[i]]] : t \in [1..k -> RowCols]}
         : k \in 0..MaxRows}

NoCall == [fn |-> "none"]
NoRet == [done |-> FALSE]

-----------------------------------------------------------------------------
(* The input data directories: index table and spectral store of each *)

Dirs == {"dirA", "dirB"}

MkRow(id, c, n, cx, nx, alcohol, ether, amine) ==
  [SMILES |-> id,
   col |-> [k \in Columns |->
              CASE k = <<"C">> -> c
                [] k = <<"N">> -> n
                [] k = <<"C", "-", "XANES">> -> cx
                [] k = <<"N", "-", "XANES">> -> nx
                [] k = <<"Alcohol">> -> alcohol
                [] k = <<"Ether">> -> ether
                [] OTHER -> amine]]

IndexOf(d) ==
  IF d = "dirA"
  THEN << MkRow("a1", 1, 0, 1, 0, 1, 0, 0),
          MkRow("a2", 1, 1, 1, 1, 0, 1, 1),
          MkRow("a3", 1, 0, 1, 0, 0, 1, 1),
          MkRow("a4", 1, 1, 1, 1, 0, 0, 1) >>
  ELSE << MkRow("b1", 1, 1, 1, 1, 1, 1, 0),
          MkRow("b2", 1, 1, 1, 1, 0, 1, 0) >>

-----------------------------------------------------------------------------
(* numpy arrays: column slice, row selection, concatenation along axis 1 *)

None == [none |-> TRUE]
Some(v) == [none |-> FALSE, val |-> v]

Min(a, b) == IF a < b THEN a ELSE b

(* arr[:, o1:o2] for None or non-negative offsets *)
SliceCols(arr, o1, o2) ==
  LET lo == IF o1.none THEN 0 ELSE Min(o1.val, Len(arr.cols))
      hi == IF o2.none THEN Len(arr.cols) ELSE Min(o2.val, Len(arr.cols))
  IN  [rows |-> arr.rows, cols |-> SubSeq(arr.cols, lo + 1, hi)]

(* arr[:, a:b] for integers 0 <= a <= b *)
ColRange(arr, a, b) ==
  [rows |-> arr.rows,
   cols |-> SubSeq(arr.cols, Min(a, Len(arr.cols)) + 1, Min(b, Len(arr.cols)))]

(* np.concatenate(arrs, axis=1) of a non-empty list of arrays of equal rows *)
ConcatCols(arrs) ==
  [rows |-> arrs[1].rows,
   cols |-> Concat([i \in 1..Len(arrs) |-> arrs[i].cols])]

InRange(idx, n) == \A i \in 1..Len(idx) : idx[i] < n

(* arr[idx, :] and vec[idx], for idx in range *)
TakeRows(arr, idx) ==
  [rows |-> [i \in 1..Len(idx) |-> arr.rows[idx[i] + 1]], cols |-> arr.cols]

TakeVec(vec, idx) == [i \in 1..Len(idx) |-> vec[idx[i] + 1]]

(* the classifier: fit and the scores are deterministic in their inputs *)
Fit(x, y) == [X |-> x, y |-> y]
Score(kind, model, x, y) == <<kind, model, x, y>>

-----------------------------------------------------------------------------
(* models.py: class Results *)

(* Results.__init__, lines 246-260 *)
NewResults(conditions, test_size, random_state, min_fg, max_fg, data_size, report) ==
  [conditions |-> Join(SortedStr(Split(conditions, COMMA)), COMMA),
   offset_left |-> None,
   offset_right |-> None,
   test_size |-> test_size,
   random_state |-> random_state,
   min_fg_occurrence |-> min_fg,
   max_fg_occurrence |-> max_fg,
   data_size |-> data_size,
   report |-> report,
   train_test_indexes |-> None]

(* the condition expressions the sessions are constructed with *)
ConditionInputs ==
  { <<"C", "-", "XANES">>,
    <<"N", "-", "XANES", ",", "C", "-", "XANES">>,
    <<"C", "-", "XANES", ",", "!", "N">>,
    <<"C", "-", "XANES", ",", "N">> }

(* data.py line 22, @lru_cache: one dataset per (files, conditions) *)
DatasetCache ==
  [d \in Dirs, c \in {Join(SortedStr(Split(x, COMMA)), COMMA) : x \in ConditionInputs}
     |-> get_dataset(IndexOf(d), c)]

(* Results.get_data, lines 161-165 *)
get_data(obj, d) == DatasetCache[d, obj.conditions]

(* Results._get_xanes_data, lines 171-179 *)
XanesKeysAvail(obj) ==
  SelectSeq(Split(obj.conditions, COMMA), LAMBDA cc : Contains(cc, XANES))

GetXanesData(obj, data) ==
  LET xanes_keys_avail == XanesKeysAvail(obj)
  IN  [arr |-> ConcatCols([i \in 1..Len(xanes_keys_avail) |->
                 SliceCols(data.xanes[xanes_keys_avail[i]],
                           obj.offset_left, obj.offset_right)]),
       n |-> Len(xanes_keys_avail)]

(* strict comparison of fractions a < b, denominators positive *)
FracLess(a, b) == a[1] * b[2] < b[1] * a[2]

EligibleInclusive(obj, p_total) ==
  /\ ~FracLess(p_total, obj.min_fg_occurrence)
  /\ ~FracLess(obj.max_fg_occurrence, p_total)

(* lines 333-336 *)
Eligible(obj, p_total) ==
  /\ FracLess(obj.min_fg_occurrence, p_total)
  /\ FracLess(p_total, obj.max_fg_occurrence)

(* lines 303, 311, 314-316 *)
ConditionsName(obj, combo) ==
  LET base_name == Replace(obj.conditions, COMMA, USCORE)
      conditions_list == Split(base_name, USCORE)
  IN  Join([j \in 1..Len(combo) |-> conditions_list[combo[j] + 1]], USCORE)

(* line 329 *)
EName(obj, combo, fg_name) == ConditionsName(obj, combo) \o DASH \o fg_name

(* lines 317-322 *)
CurrentXanesData(xanes_data, ssl, combo) ==
  ConcatCols([j \in 1..Len(combo) |->
                ColRange(xanes_data, ssl * combo[j], ssl * (combo[j] + 1))])

(* dict: the empty mapping and item assignment *)
EmptyDict == [k \in {} |-> 0]
Put(m, k, v) == [x \in (DOMAIN m) \cup {k} |-> IF x = k THEN v ELSE m[x]]

(* the seeded generator: one draw per (seed, N, size), the same every time *)
DrawsFor(key) == IF key \in DOMAIN rng THEN {rng[key]} ELSE Draws(key[2], key[3])

IdleFrame ==
  [pc |-> "idle", dir |-> "none", out |-> FALSE, debug |-> -1, cfi |-> FALSE,
   ci |-> 1, ii |-> 0, models |-> EmptyDict, trained |-> <<>>,
   report0 |-> EmptyDict, outcome |-> "none", ename |-> <<>>,
   data |-> Raise("unset"), xanes_data |-> [rows |-> <<>>, cols |-> <<>>],
   ssl |-> 0, combos |-> <<>>, train_indexes |-> <<>>, test_indexes |-> <<>>]

Debugs == {-1} \cup (1..MaxDebug)

(* the labels of the running call's dataset, and the end of its loops *)
RunFG == run.data.FG
Finished == run.ci > Len(run.combos)

(* the position after pair (ci, ii): the next label, or the next combination *)
NextPos(ci, ii, L, brk) ==
  IF brk \/ ii + 1 >= L THEN <<ci + 1, 0>> ELSE <<ci, ii + 1>>

(* lines 424-427 *)
DebugBreak(debug, ii) == debug > 0 /\ ii >= debug

PTotal(y) == <<SumSeq(y), Len(y)>>

Raised(frame) == [frame EXCEPT !.pc = "idle", !.outcome = "raised"]

(* lines 293-312 *)
RunStart(d, out, debug, cfi) ==
  /\ run.pc = "idle"
  /\ runs < MaxRuns
  /\ runs' = runs + 1
  /\ vres' = None
  /\ UNCHANGED <<written, call, ret>>
  /\ LET data == get_data(self, d)
         frame == [IdleFrame EXCEPT !.dir = d, !.out = out, !.debug = debug,
                                    !.cfi = cfi, !.report0 = self.report]
     IN  IF ~data.ok \/ Len(data.index) = 0 \/ Len(XanesKeysAvail(self)) = 0
         THEN /\ run' = Raised(frame)
              /\ UNCHANGED <<self, rng>>
         ELSE LET xd == GetXanesData(self, data)
                  N == Len(xd.arr.rows)
                  key == <<self.random_state, N, TestSize(self.test_size, N)>>
                  combos == get_all_combinations(xd.n)
                  start == IF Len(data.FG) = 0 THEN <<Len(combos) + 1, 0>>
                           ELSE <<1, 0>>
                  draws == IF self.train_test_indexes.none THEN DrawsFor(key)
                           ELSE {<<>>}
              IN  /\ \E draw \in draws :
                       /\ self' = [self EXCEPT
                            !.data_size = Some(N),
                            !.train_test_indexes =
                              IF self.train_test_indexes.none
                              THEN Some(TrainTestIndexes(N, draw))
                              ELSE self.train_test_indexes]
                       /\ rng' = IF self.train_test_indexes.none
                                 THEN Put(rng, key, draw) ELSE rng
                  /\ run' = [frame EXCEPT
                       !.pc = "loop", !.outcome = "running",
                       !.data = data, !.xanes_data = xd.arr,
                       !.ssl = Len(xd.arr.cols) \div xd.n,
                       !.combos = combos,
                       !.train_indexes = self'.train_test_indexes.val[1],
                       !.test_indexes = self'.train_test_indexes.val[2],
                       !.ci = start[1], !.ii = start[2]]

(* lines 328-342: the label's occurrence is outside the bounds *)
IterSkip ==
  /\ run.pc = "loop"
  /\ ~Finished
  /\ ~Eligible(self, PTotal(RunFG[run.ii + 1].y))
  /\ LET pos == NextPos(run.ci, run.ii, Len(RunFG), FALSE)
     IN  run' = [run EXCEPT !.ci = pos[1], !.ii = pos[2]]
  /\ UNCHANGED <<self, rng, written, vres, runs, call, ret>>

(* lines 344-390 and, without feature importances, 424-427 *)
IterTrain ==
  /\ run.pc = "loop"
  /\ ~Finished
  /\ Eligible(self, PTotal(RunFG[run.ii + 1].y))
  /\ UNCHANGED <<rng, written, vres, runs, call, ret>>
  /\ LET combo == run.combos[run.ci]
         fg == RunFG[run.ii + 1]
         N == Len(run.xanes_data.rows)
         ename == EName(self, combo, fg.name)
         current_xanes_data == CurrentXanesData(run.xanes_data, run.ssl, combo)
         train_indexes == run.train_indexes
         test_indexes == run.test_indexes
     IN  IF \/ ~InRange(train_indexes, N) \/ ~InRange(test_indexes, N)
            \/ train_indexes = <<>> \/ test_indexes = <<>>
         THEN /\ run' = Raised(run)
              /\ UNCHANGED self
         ELSE LET x_train == TakeRows(current_xanes_data, train_indexes)
                  x_test == TakeRows(current_xanes_data, test_indexes)
                  y_train == TakeVec(fg.y, train_indexes)
                  y_test == TakeVec(fg.y, test_indexes)
                  model == Fit(x_train, y_train)
                  rec == [p_total |-> PTotal(fg.y),
                          p_train |-> PTotal(y_train),
                          p_test |-> PTotal(y_test),
                          test_accuracy |-> Score("accuracy", model, x_test, y_test),
                          train_accuracy |-> Score("accuracy", model, x_train, y_train),
                          test_balanced_accuracy |->
                            Score("balanced_accuracy", model, x_test, y_test),
                          train_balanced_accuracy |->
                            Score("balanced_accuracy", model, x_train, y_train)]
                  pos == NextPos(run.ci, run.ii, Len(RunFG),
                                 DebugBreak(run.debug, run.ii))
              IN  /\ self' = [self EXCEPT !.report = Put(self.report, ename, rec)]
                  /\ run' = [run EXCEPT
                       !.models = IF run.out THEN Put(run.models, ename, model)
                                  ELSE run.models,
                       !.trained = Append(run.trained,
                                    [combo |-> combo, fg |-> fg.name, ename |-> ename]),
                       !.ename = ename,
                       !.pc = IF run.cfi THEN "importance" ELSE "loop",
                       !.ci = IF run.cfi THEN run.ci ELSE pos[1],
                       !.ii = IF run.cfi THEN run.ii ELSE pos[2]]

(* lines 392-420: the record gains feature_importance, then            *)
(* p_importance.mean (a Bunch has no such attribute) raises            *)
IterImportance ==
  /\ run.pc = "importance"
  /\ self' = [self EXCEPT !.report =
       Put(self.report, run.ename,
           self.report[run.ename] @@
             [feature_importance |-> <<"importances", run.ename>>])]
  /\ run' = Raised(run)
  /\ UNCHANGED <<rng, written, vres, runs, call, ret>>

(* self.to_json(): the constructor arguments, lines 231-245 *)
ToJson(obj) ==
  [conditions |-> obj.conditions,
   test_size |-> obj.test_size,
   random_state |-> obj.random_state,
   min_fg_occurrence |-> obj.min_fg_occurrence,
   max_fg_occurrence |-> obj.max_fg_occurrence,
   data_size |-> obj.data_size,
   report |-> obj.report]

(* lines 429-444 *)
RunFinish ==
  /\ run.pc = "loop"
  /\ Finished
  /\ run' = [run EXCEPT !.pc = "idle", !.outcome = "completed"]
  /\ written' = IF run.out
                THEN Some([json |-> ToJson(self), models |-> run.models,
                           dir |-> run.dir])
                ELSE written
  /\ UNCHANGED <<self, rng, vres, runs, call, ret>>

-----------------------------------------------------------------------------
(* models.py: validate *)

(* Results.from_file, lines 108-114 *)
FromFile(json) ==
  NewResults(json.conditions, json.test_size, json.random_state,
             json.min_fg_occurrence, json.max_fg_occurrence,
             json.data_size, json.report)

(* lines 469-471 *)
KeyXanes(key) ==
  LET parts == Split(key, XANES)
      xk == SubSeq(parts, 1, Len(parts) - 1)
  IN  [i \in 1..Len(xk) |->
         Replace(Replace(xk[i], DASH, <<>>), USCORE, <<>>) \o <<"-", "XANES">>]

(* line 483 *)
KeyFG(key) ==
  LET parts == Split(key, <<"XANES", "-">>) IN parts[Len(parts)]

FGNames(data) == {data.FG[i].name : i \in 1..Len(data.FG)}
FGArray(data, fg) == (CHOOSE i \in 1..Len(data.FG) : data.FG[i].name = fg)

(* lines 468-491 for one key: "ok", "raises" or "differs" *)
ValidateKey(results, data, test_idx, models, key) ==
  LET xk == KeyXanes(key)
      fg == KeyFG(key)
      N == Len(data.index)
  IN  IF \/ xk = <<>>
         \/ \E i \in 1..Len(xk) : xk[i] \notin data.keys
         \/ N = 0
         \/ ~InRange(test_idx, N)
         \/ test_idx = <<>>
         \/ fg \notin FGNames(data)
         \/ key \notin DOMAIN results.report
      THEN "raises"
      ELSE LET X == ConcatCols([i \in 1..Len(xk) |->
                      SliceCols(data.xanes[xk[i]],
                                results.offset_left, results.offset_right)])
               targets == TakeVec(data.FG[FGArray(data, fg)].y, test_idx)
               balanced_acc == Score("balanced_accuracy", models[key],
                                     TakeRows(X, test_idx), targets)
           IN  IF Len(X.cols) # Len(models[key].X.cols) THEN "raises"
               ELSE IF balanced_acc = results.report[key].test_balanced_accuracy
               THEN "ok"
               ELSE "differs"

ValidateAll(results, data, test_idx, models) ==
  LET outs == {ValidateKey(results, data, test_idx, models, key) : key \in DOMAIN models}
  IN  IF "raises" \in outs THEN "raises"
      ELSE IF "differs" \in outs THEN "differs"
      ELSE "ok"

(* lines 459-491 *)
Validate(d) ==
  /\ run.pc = "idle"
  /\ ~written.none
  /\ UNCHANGED <<self, run, written, runs, call, ret>>
  /\ LET results == FromFile(written.val.json)
         data == DatasetCache[d, results.conditions]
     IN  IF ~data.ok \/ results.data_size.none
         THEN /\ vres' = Some([own |-> d = written.val.dir, outcome |-> "raises"])
              /\ UNCHANGED rng
         ELSE LET N == results.data_size.val
                  key == <<results.random_state, N, TestSize(results.test_size, N)>>
              IN  \E draw \in DrawsFor(key) :
                    /\ rng' = Put(rng, key, draw)
                    /\ vres' = Some([own |-> d = written.val.dir,
                         outcome |-> ValidateAll(results, data,
                                       TrainTestIndexes(N, draw)[2],
                                       written.val.models)])

-----------------------------------------------------------------------------
(* The session: one Results instance, calls of run_experiments and validate *)

(* (min_fg_occurrence, max_fg_occurrence): the defaults, and bounds that *)
(* labels of the data directories meet exactly                           *)
Thresholds == { << <<1, 50>>, <<49, 50>> >>, << <<1, 4>>, <<3, 4>> >> }

DefaultTestSize == <<3, 5>>
DefaultSeed == 42

(* a record kept from an earlier session, as from_file loads it *)
EarlierReport ==
  Put(EmptyDict, <<"C", "-", "XANES", "-", "Ketone">>,
      [p_total |-> <<1, 2>>, p_train |-> <<1, 2>>, p_test |-> <<1, 2>>,
       test_accuracy |-> <<"accuracy", "earlier">>,
       train_accuracy |-> <<"accuracy", "earlier">>,
       test_balanced_accuracy |-> <<"balanced_accuracy", "earlier">>,
       train_balanced_accuracy |-> <<"balanced_accuracy", "earlier">>])

Init ==
  /\ \E c \in ConditionInputs, th \in Thresholds, rep \in {EmptyDict, EarlierReport} :
       self = NewResults(c, DefaultTestSize, DefaultSeed, th[1], th[2], None, rep)
  /\ run = IdleFrame
  /\ rng = EmptyDict
  /\ written = None
  /\ vres = None
  /\ runs = 0
  /\ call = NoCall
  /\ ret = NoRet

Next ==
  \/ \E d \in Dirs, out \in BOOLEAN, debug \in Debugs, cfi \in BOOLEAN :
       RunStart(d, out, debug, cfi)
  \/ IterSkip
  \/ IterTrain
  \/ IterImportance
  \/ RunFinish
  \/ \E d \in Dirs : Validate(d)

Spec == Init /\ [][Next]_vars

-----------------------------------------------------------------------------
(* The pure functions, each applied once to an input drawn at the start *)

(* the xanes argument of get_train_test_split; "C,N,O" is its default *)
XanesRequests ==
  { <<"C">>, <<"N">>, <<"C", ",", "N">>, <<"N", ",", "C">>,
    <<"C", ",", "N", ",", "O">> }

(* an instance whose data size is that of directory d, as run_experiments *)
(* leaves it (line 299) and as from_file restores it (lines 108-114)      *)
SizedResults(c, d) ==
  LET fresh == NewResults(c, DefaultTestSize, DefaultSeed, <<1, 50>>, <<49, 50>>,
                          None, EmptyDict)
      data == get_data(fresh, d)
  IN  [fresh EXCEPT !.data_size =
         IF data.ok THEN Some(Len(data.index)) ELSE None]

SessionIdle ==
  /\ self = NewResults(<<"C", "-", "XANES">>, DefaultTestSize, DefaultSeed,
                       <<1, 50>>, <<49, 50>>, None, EmptyDict)
  /\ run = IdleFrame
  /\ rng = EmptyDict
  /\ written = None
  /\ vres = None
  /\ runs = 0

InitFn ==
  /\ run = IdleFrame
  /\ rng = EmptyDict
  /\ written = None
  /\ vres = None
  /\ runs = 0
  /\ ret = NoRet
  /\ \/ /\ SessionIdle
        /\ \/ \E n \in 0..MaxComboN :
                call = [fn |-> "get_all_combinations", n |-> n]
           \/ \E N \in 0..MaxN, sd \in Seeds, f \in Fractions :
                call = [fn |-> "train_test_indexes", N |-> N, seed |-> sd, f |-> f]
           \/ \E t \in Tables, tl \in TokenLists :
                call = [fn |-> "get_dataset", index |-> t, tokens |-> tl]
     \/ \E c \in ConditionInputs, d \in Dirs, x \in XanesRequests :
          /\ self = SizedResults(c, d)
          /\ call = [fn |-> "get_train_test_split", dir |-> d, xanes |-> x]

Return(v) ==
  /\ ret' = [done |-> TRUE, val |-> v]
  /\ UNCHANGED <<self, run, rng, written, vres, runs, call>>

ApplyCombinations ==
  /\ call.fn = "get_all_combinations"
  /\ ~ret.done
  /\ Return(get_all_combinations(call.n))

ApplySplit ==
  /\ call.fn = "train_test_indexes"
  /\ ~ret.done
  /\ \E draw \in Draws(call.N, TestSize(call.f, call.N)) :
       Return(TrainTestIndexes(call.N, draw))

ApplyGetDataset ==
  /\ call.fn = "get_dataset"
  /\ ~ret.done
  /\ Return(get_dataset(call.index, Join(call.tokens, COMMA)))

(* list.index: the first position of x in lst, counted from 0 *)
ListIndex(lst, x) ==
  (CHOOSE i \in 1..Len(lst) :
     lst[i] = x /\ \A j \in 1..(i - 1) : lst[j] # x) - 1

(* Results.get_train_test_split, lines 197-229, given the cached partition *)
TrainTestSplit(obj, data, xanes_arg, tt) ==
  LET xs == Split(xanes_arg, COMMA)
      xanes == [i \in 1..Len(xs) |-> xs[i] \o DASH \o XANES]
      conditions == Split(obj.conditions, COMMA)
  IN  IF ~(Range(xanes) \subseteq Range(conditions))
      THEN Raise("AssertionError")
      ELSE IF ~data.ok \/ Len(data.index) = 0
      THEN Raise("IndexError")
      ELSE
        LET indexes == [i \in 1..Len(xanes) |-> ListIndex(conditions, xanes[i])]
            xd == GetXanesData(obj, data)
            ssl == Len(xd.arr.cols) \div xd.n
            current_xanes_data == CurrentXanesData(xd.arr, ssl, indexes)
            functional_groups == data.FG
            L == Len(functional_groups)
        IN  IF ~InRange(tt[1], Len(xd.arr.rows)) \/ ~InRange(tt[2], Len(xd.arr.rows))
            THEN Raise("IndexError")
            ELSE [ok |-> TRUE,
                  x_train |-> TakeRows(current_xanes_data, tt[1]),
                  x_test |-> TakeRows(current_xanes_data, tt[2]),
                  y_train |-> [i \in 1..L |->
                                 [name |-> functional_groups[i].name,
                                  y |-> TakeVec(functional_groups[i].y, tt[1])]],
                  y_test |-> [i \in 1..L |->
                                [name |-> functional_groups[i].name,
                                 y |-> TakeVec(functional_groups[i].y, tt[2])]],
                  unique_functional_groups |->
                    [i \in 1..L |-> functional_groups[i].name]]

(* a call of get_train_test_split: line 202 reads train_test_indexes, which *)
(* lines 148-159 compute and cache on the first read                         *)
ApplyTrainTestSplit ==
  /\ call.fn = "get_train_test_split"
  /\ ~ret.done
  /\ UNCHANGED <<run, written, vres, runs, call>>
  /\ LET data == get_data(self, call.dir)
         xs == Split(call.xanes, COMMA)
         tags == {xs[i] \o DASH \o XANES : i \in 1..Len(xs)}
     IN  IF ~(tags \subseteq Range(Split(self.conditions, COMMA)))
         THEN /\ ret' = [done |-> TRUE, val |-> Raise("AssertionError")]
              /\ UNCHANGED <<self, rng>>
         ELSE IF self.train_test_indexes.none /\ self.data_size.none
         THEN /\ ret' = [done |-> TRUE, val |-> Raise("RuntimeError")]
              /\ UNCHANGED <<self, rng>>
         ELSE
           LET N == self.data_size.val
               key == <<self.random_state, N, TestSize(self.test_size, N)>>
               draws == IF self.train_test_indexes.none THEN DrawsFor(key)
                        ELSE {<<>>}
           IN  \E draw \in draws :
                 LET tt == IF self.train_test_indexes.none
                           THEN TrainTestIndexes(N, draw)
                           ELSE self.train_test_indexes.val
                 IN  /\ self' = [self EXCEPT !.train_test_indexes = Some(tt)]
                     /\ rng' = IF self.train_test_indexes.none
                               THEN Put(rng, key, draw) ELSE rng
                     /\ ret' = [done |-> TRUE,
                                val |-> TrainTestSplit(self, data, call.xanes, tt)]

NextFn ==
  ApplyCombinations \/ ApplySplit \/ ApplyGetDataset \/ ApplyTrainTestSplit

SpecFn == InitFn /\ [][NextFn]_vars

-----------------------------------------------------------------------------
(* Claims *)

Ascending(s) == \A i, j \in 1..Len(s) : i < j => s[i] < s[j]

RECURSIVE LexLessInt(_, _)
LexLessInt(s, t) ==
  IF t = <<>> THEN FALSE
  ELSE IF s = <<>> THEN TRUE
  ELSE IF Head(s) = Head(t) THEN LexLessInt(Tail(s), Tail(t))
  ELSE Head(s) < Head(t)

SplitReturned == call.fn = "train_test_indexes" /\ ret.done

(* C1: for every data size N >= 0, seed and test fraction f in [0,1],      *)
(* train_test_indexes returns (train, test) where test has exactly         *)
(* floor(f*N) elements and no duplicates, train and test are disjoint,     *)
(* their union is {0..N-1}, and both are sorted ascending.                 *)
C1_SplitIsSortedPartition ==
  SplitReturned =>
    LET train == ret.val[1]
        test == ret.val[2]
        N == call.N
    IN  /\ Len(test) * call.f[2] <= call.f[1] * N
        /\ call.f[1] * N < (Len(test) + 1) * call.f[2]
        /\ \A i, j \in 1..Len(test) : i # j => test[i] # test[j]
        /\ Range(train) \cap Range(test) = {}
        /\ Range(train) \cup Range(test) = 0..(N - 1)
        /\ Ascending(train)
        /\ Ascending(test)

C1_Witness ==
  /\ SplitReturned
  /\ call.N >= 4
  /\ Len(ret.val[2]) = 2
  /\ Len(ret.val[1]) >= 2

CombinationsReturned == call.fn = "get_all_combinations" /\ ret.done

(* C9: for every n >= 1, get_all_combinations(n) returns every non-empty   *)
(* combination of positions 0..n-1 exactly once (2^n - 1 tuples, each      *)
(* strictly increasing), ordered by length and lexicographically within a  *)
(* length; for n = 3 these are (0),(1),(2),(0,1),(0,2),(1,2),(0,1,2).      *)
C9_AllCombinationsInOrder ==
  (CombinationsReturned /\ call.n >= 1) =>
    LET cs == ret.val
        n == call.n
    IN  /\ Len(cs) = 2 ^ n - 1
        /\ \A i \in 1..Len(cs) :
             /\ cs[i] # <<>>
             /\ Ascending(cs[i])
             /\ Range(cs[i]) \subseteq 0..(n - 1)
        /\ \A S \in (SUBSET (0..(n - 1))) \ {{}} :
             Cardinality({i \in 1..Len(cs) : Range(cs[i]) = S}) = 1
        /\ \A i, j \in 1..Len(cs) :
             i < j => \/ Len(cs[i]) < Len(cs[j])
                      \/ Len(cs[i]) = Len(cs[j]) /\ LexLessInt(cs[i], cs[j])
        /\ n = 3 => cs = << <<0>>, <<1>>, <<2>>, <<0, 1>>, <<0, 2>>, <<1, 2>>,
                            <<0, 1, 2>> >>

C9_Witness ==
  /\ CombinationsReturned
  /\ call.n = 3
  /\ Len(ret.val) = 7

DatasetReturned == call.fn = "get_dataset" /\ ret.done

IsSpectral(t) == t[Len(t)] = "XANES"
IsNegated(t) == t[1] = "!"
HasNegatedSpectral(tokens) ==
  \E i \in 1..Len(tokens) : IsNegated(tokens[i]) /\ IsSpectral(tokens[i])

(* a row satisfies a token: column == 1 for name, column == 0 for !name,  *)
(* and the base-element flag == 1 for a spectral-presence token           *)
RowSatisfies(r, t) ==
  IF IsNegated(t) THEN r.col[Tail(t)] = 0
  ELSE /\ r.col[t] = 1
       /\ IsSpectral(t) => r.col[<<t[1]>>] = 1

ExpectedIndex(index, tokens) ==
  SelectSeq(index, LAMBDA r : \A i \in 1..Len(tokens) : RowSatisfies(r, tokens[i]))

Perms(n) == {q \in [1..n -> 1..n] : \A i, j \in 1..n : i # j => q[i] # q[j]}

(* C5 as stated: for every index table and every condition expression     *)
(* over existing columns, get_dataset's filtered index holds exactly the   *)
(* rows satisfying every token, in the original row order.                 *)
C5_Original ==
  DatasetReturned =>
    /\ ret.val.ok
    /\ ret.val.index = ExpectedIndex(call.index, call.tokens)

(* C5 amended: for every condition expression with no negated spectral    *)
(* token, the filtered index holds exactly the rows satisfying every      *)
(* token, in the original row order, and the row set is the same for      *)
(* every permutation of the tokens; with a negated spectral token         *)
(* ('!X-XANES') get_dataset raises KeyError and returns no dataset.       *)
C5_FilteredIndex ==
  DatasetReturned =>
    IF HasNegatedSpectral(call.tokens)
    THEN ret.val = Raise("KeyError")
    ELSE /\ ret.val.ok
         /\ ret.val.index = ExpectedIndex(call.index, call.tokens)
         /\ \A q \in Perms(Len(call.tokens)) :
              LET permuted == [i \in 1..Len(call.tokens) |-> call.tokens[q[i]]]
                  other == get_dataset(call.index, Join(permuted, COMMA))
              IN  other.ok /\ Range(other.index) = Range(ret.val.index)

C5_Witness ==
  /\ DatasetReturned
  /\ ret.val.ok
  /\ Len(call.tokens) >= 2
  /\ \E i \in 1..Len(call.tokens) : IsSpectral(call.tokens[i])
  /\ Len(call.index) = 2
  /\ ret.val.index = <<call.index[2]>>

(* C2: whenever run_experiments writes its output, the key set of the      *)
(* written model store equals the key set of the record mapping in the     *)
(* written report, after any sequence of run_experiments calls and         *)
(* whatever report the instance was constructed with.                      *)
C2_StoreKeysEqualReportKeys ==
  ~written.none =>
    DOMAIN written.val.models = DOMAIN written.val.json.report

(* the '*-XANES' tokens of the conditions at the combination's positions,  *)
(* joined by an underscore in increasing position order                    *)
ModalityName(obj, combo) ==
  Join([j \in 1..Len(combo) |-> XanesKeysAvail(obj)[combo[j] + 1]], USCORE)

(* the modality tags of the spectral columns of an array, in column order *)
RECURSIVE Dedup(_)
Dedup(lst) ==
  IF lst = <<>> THEN <<>>
  ELSE LET rest == Dedup(SubSeq(lst, 1, Len(lst) - 1))
       IN  IF lst[Len(lst)] \in Range(rest) THEN rest
           ELSE Append(rest, lst[Len(lst)])

ColumnTags(arr) == Dedup([i \in 1..Len(arr.cols) |-> arr.cols[i][1]])

(* C3: in run_experiments, for every condition expression and every        *)
(* combination, the combination name in the record key                     *)
(* "{combo_name}-{fg_name}" is the underscore-join, in increasing position *)
(* order, of the modality tags at the combination's positions: it names    *)
(* the modalities whose feature blocks were concatenated for that key.     *)
C3_KeyNamesModalities ==
  \A i \in 1..Len(run.trained) :
    LET t == run.trained[i]
    IN  /\ t.ename = ModalityName(self, t.combo) \o DASH \o t.fg
        /\ ModalityName(self, t.combo) =
             Join(ColumnTags(CurrentXanesData(run.xanes_data, run.ssl, t.combo)),
                  USCORE)

StrictlyBetween(p, lo, hi) ==
  /\ lo[1] * p[2] < p[1] * lo[2]
  /\ p[1] * hi[2] < hi[1] * p[2]

PairEligible(i) ==
  StrictlyBetween(<<SumSeq(RunFG[i].y), Len(RunFG[i].y)>>,
                  self.min_fg_occurrence, self.max_fg_occurrence)

FreshFullRun ==
  /\ run.outcome = "completed"
  /\ run.debug <= 0
  /\ run.report0 = EmptyDict

C4_AtCompletion ==
  FreshFullRun =>
    \A c \in 1..Len(run.combos), i \in 1..Len(RunFG) :
      /\ PairEligible(i) <=>
           EName(self, run.combos[c], RunFG[i].name) \in DOMAIN self.report
      /\ PairEligible(i) <=>
           \E k \in 1..Len(run.trained) :
             /\ run.trained[k].combo = run.combos[c]
             /\ run.trained[k].fg = RunFG[i].name

C4_RejectionSkips ==
  (run.pc = "loop" /\ ~Finished /\ ~PairEligible(run.ii + 1)) =>
    /\ run'.pc = "loop"
    /\ run'.outcome = "running"
    /\ self' = self
    /\ run'.trained = run.trained
    /\ <<run'.ci, run'.ii>> # <<run.ci, run.ii>>

(* C4: in a run_experiments call that starts from an empty report with     *)
(* debug off and completes, a (combination, functional-group) pair gets a  *)
(* record if and only if min_fg_occurrence < p_total < max_fg_occurrence   *)
(* strictly (a fraction equal to either bound is rejected), and a          *)
(* rejection skips only that pair without aborting the run.                *)
C4_StrictEligibility == [](C4_AtCompletion) /\ [][C4_RejectionSkips]_vars

(* a completed run in which one label sits exactly on the minimum, one     *)
(* exactly on the maximum, and a label after the first rejection is kept   *)
C4_Witness ==
  /\ FreshFullRun
  /\ \E i, j, k \in 1..Len(RunFG) :
       /\ i < j
       /\ PTotal(RunFG[i].y)[1] * self.min_fg_occurrence[2]
            = self.min_fg_occurrence[1] * PTotal(RunFG[i].y)[2]
       /\ PTotal(RunFG[k].y)[1] * self.max_fg_occurrence[2]
            = self.max_fg_occurrence[1] * PTotal(RunFG[k].y)[2]
       /\ \A c \in 1..Len(run.combos) :
            /\ EName(self, run.combos[c], RunFG[j].name) \in DOMAIN self.report
            /\ EName(self, run.combos[c], RunFG[i].name) \notin DOMAIN self.report
            /\ EName(self, run.combos[c], RunFG[k].name) \notin DOMAIN self.report

(* C6: a validator run against its own just-written report and models      *)
(* never fails: after run_experiments with an output directory completes,  *)
(* validate on the written report completes without error for every        *)
(* condition expression.                                                   *)
C6_ValidateOwnReport ==
  (~vres.none /\ vres.val.own) => vres.val.outcome = "ok"

(* C7: a record is created once and never mutated after insertion: once a  *)
(* key is in the report, neither the rest of the same iteration nor any    *)
(* later iteration or later run_experiments call changes its value.        *)
C7_RecordsNeverChange ==
  [][\A k \in DOMAIN self.report :
       k \in DOMAIN self'.report /\ self'.report[k] = self.report[k]]_vars

(* C8: with debug = d > 0 a run_experiments call iterates only through     *)
(* that many calculations: at most d (combination, functional-group) pairs *)
(* are trained and recorded during the call.                               *)
C8_DebugBoundsPairs ==
  run.debug > 0 => Len(run.trained) <= run.debug

(* C10: after any sequence of run_experiments calls on one instance, the   *)
(* partition returned by train_test_indexes is a partition of exactly      *)
(* [0, current _data_size): every index used is in range and every row of  *)
(* the current dataset is in train or test.                                *)
C10_PartitionOfCurrentData ==
  (~self.data_size.none /\ ~self.train_test_indexes.none) =>
    LET train == self.train_test_indexes.val[1]
        test == self.train_test_indexes.val[2]
    IN  /\ Range(train) \cup Range(test) = 0..(self.data_size.val - 1)
        /\ Range(train) \cap Range(test) = {}

SplitCallReturned == call.fn = "get_train_test_split" /\ ret.done

RequestedTags ==
  LET xs == Split(call.xanes, COMMA)
  IN  [i \in 1..Len(xs) |-> xs[i] \o DASH \o XANES]

(* the columns of the packed array that belong to the modality tag *)
BlockOf(packed, tag) == SelectSeq(packed.cols, LAMBDA c : c[1] = tag)

(* C11: for every condition expression and every requested element list    *)
(* whose '<X>-XANES' tags all occur in the conditions, get_train_test_split *)
(* returns x_train and x_test whose columns are exactly the spectral blocks *)
(* of the requested modalities, in the requested order, from the packed     *)
(* array of _get_xanes_data, and whose rows are the cached train and test   *)
(* indices respectively.                                                    *)
C11_SplitTakesRequestedBlocks ==
  (/\ SplitCallReturned
   /\ Range(RequestedTags) \subseteq Range(Split(self.conditions, COMMA))) =>
    /\ ret.val.ok
    /\ LET packed == GetXanesData(self, get_data(self, call.dir)).arr
           tt == self.train_test_indexes.val
           want == Concat([i \in 1..Len(RequestedTags) |->
                             BlockOf(packed, RequestedTags[i])])
       IN  /\ ret.val.x_train =
                [rows |-> [i \in 1..Len(tt[1]) |-> packed.rows[tt[1][i] + 1]],
                 cols |-> want]
           /\ ret.val.x_test =
                [rows |-> [i \in 1..Len(tt[2]) |-> packed.rows[tt[2][i] + 1]],
                 cols |-> want]

====
